---- MODULE Spec2Model ----
(***************************************************************************)
(* Finance Tracker Backend (src/app.py): the Flask handlers for budgets,   *)
(* expenses, the monthly summary and the monthly report, over the           *)
(* per-user Firestore collections, behind the require_auth decorator.       *)
(*                                                                          *)
(* Python strings are sequences of one-character strings, so that strip,    *)
(* split, int() and float() are computed, not assumed.  Python floats are   *)
(* records [nan, v]: v is the number, nan marks float('nan'), whose         *)
(* comparisons are all false.  A handler that calls the store more than     *)
(* once is one action per store call; its locals wait in `inflight`.        *)
(***************************************************************************)
EXTENDS Integers, Sequences, FiniteSets, TLC

VARIABLES budgets, expenses, inflight, clock, nextId, last

vars == <<budgets, expenses, inflight, clock, nextId, last>>

(* ------------------------------ bounds --------------------------------- *)

\* Requests that may be in flight at once.
MaxInFlight == 2
\* Readings of datetime.now() in one run (each reading is a distinct instant).
MaxClock == 3
\* The same, in the runs that exercise the analytics routes.
MaxClockAnalytics == 4

Slots == 1 .. MaxInFlight

(* --------------------------- Python values ----------------------------- *)

\* JSON values of a request body; Absent is a key that is not in the body.
Num(n) == [t |-> "num", n |-> n]
Str(s) == [t |-> "str", s |-> s]
Null == [t |-> "null"]
Absent == [t |-> "absent"]

\* Python floats.
F(n) == [nan |-> FALSE, v |-> n]
NaN == [nan |-> TRUE, v |-> 0]
FAdd(a, b) == IF a.nan \/ b.nan THEN NaN ELSE F(a.v + b.v)
FSub(a, b) == IF a.nan \/ b.nan THEN NaN ELSE F(a.v - b.v)
FGt(a, b) == ~a.nan /\ ~b.nan /\ a.v > b.v
FGe(a, b) == ~a.nan /\ ~b.nan /\ a.v >= b.v
FLe(a, b) == ~a.nan /\ ~b.nan /\ a.v <= b.v
FEq(a, b) == ~a.nan /\ ~b.nan /\ a.v = b.v

IsSpace(c) == c = " "
Digits == {"0", "1", "2", "3", "4", "5", "6", "7", "8", "9"}
DigitVal(c) ==
  CASE c = "0" -> 0 [] c = "1" -> 1 [] c = "2" -> 2 [] c = "3" -> 3
    [] c = "4" -> 4 [] c = "5" -> 5 [] c = "6" -> 6 [] c = "7" -> 7
    [] c = "8" -> 8 [] c = "9" -> 9

RECURSIVE lstrip(_)
lstrip(s) == IF s # <<>> /\ IsSpace(Head(s)) THEN lstrip(Tail(s)) ELSE s

RECURSIVE rstrip(_)
rstrip(s) ==
  IF s # <<>> /\ IsSpace(s[Len(s)]) THEN rstrip(SubSeq(s, 1, Len(s) - 1)) ELSE s

\* str.strip()
strip(s) == rstrip(lstrip(s))

\* str.split('-'): the pieces between the dashes, empty pieces included.
RECURSIVE split(_)
split(s) ==
  IF \A i \in 1 .. Len(s) : s[i] # "-"
  THEN <<s>>
  ELSE LET i == CHOOSE k \in 1 .. Len(s) :
                  s[k] = "-" /\ \A j \in 1 .. k - 1 : s[j] # "-"
       IN  <<SubSeq(s, 1, i - 1)>> \o split(SubSeq(s, i + 1, Len(s)))

RECURSIVE DigitsValue(_)
DigitsValue(s) ==
  IF s = <<>> THEN 0
  ELSE 10 * DigitsValue(SubSeq(s, 1, Len(s) - 1)) + DigitVal(s[Len(s)])

AllDigits(s) == s # <<>> /\ \A i \in 1 .. Len(s) : s[i] \in Digits

\* The number a stripped numeral denotes: an optional sign, then digits.
\* [ok |-> FALSE] is ValueError.
Numeral(t) ==
  IF t # <<>> /\ Head(t) \in {"-", "+"}
  THEN IF AllDigits(Tail(t))
       THEN [ok |-> TRUE,
             v |-> IF Head(t) = "-" THEN 0 - DigitsValue(Tail(t))
                   ELSE DigitsValue(Tail(t))]
       ELSE [ok |-> FALSE]
  ELSE IF AllDigits(t) THEN [ok |-> TRUE, v |-> DigitsValue(t)]
       ELSE [ok |-> FALSE]

\* int(s) of a string: surrounding whitespace is ignored.
pyInt(s) == Numeral(strip(s))

\* float(x) of a JSON value.  A number converts to itself; a string is
\* stripped and read as a numeral or as the literal nan; anything else
\* raises ValueError or TypeError ([ok |-> FALSE]).
pyFloat(x) ==
  CASE x.t = "num" -> [ok |-> TRUE, v |-> F(x.n)]
    [] x.t = "str" ->
         IF strip(x.s) \in {<<"n", "a", "n">>, <<"N", "a", "N">>}
         THEN [ok |-> TRUE, v |-> NaN]
         ELSE LET r == Numeral(strip(x.s))
              IN  IF r.ok THEN [ok |-> TRUE, v |-> F(r.v)] ELSE [ok |-> FALSE]
    [] OTHER -> [ok |-> FALSE]

\* Python truthiness of a JSON value (`not data[field]`).
Truthy(x) ==
  CASE x.t = "num" -> x.n # 0
    [] x.t = "str" -> x.s # <<>>
    [] OTHER -> FALSE

Present(x) == x.t # "absent"

(* ------------------------------ dates ---------------------------------- *)

IsLeap(y) == (y % 4 = 0 /\ y % 100 # 0) \/ y % 400 = 0

\* calendar.monthrange(year, month)[1]
monthrange(y, m) ==
  CASE m \in {1, 3, 5, 7, 8, 10, 12} -> 31
    [] m \in {4, 6, 9, 11} -> 30
    [] OTHER -> IF IsLeap(y) THEN 29 ELSE 28

\* datetime values are <<year, month, day, hour, minute, second>>.
RECURSIVE LexLeq(_, _)
LexLeq(a, b) ==
  IF a = <<>> THEN TRUE
  ELSE IF Head(a) # Head(b) THEN Head(a) < Head(b)
       ELSE LexLeq(Tail(a), Tail(b))

\* Mutant of get_month_range: February ends on the 28th in every year.
get_month_range_NoLeap(month_str) ==
  LET parts == split(month_str)
      y == pyInt(parts[1])
      m == pyInt(parts[2])
  IN  IF Len(parts) # 2 THEN [ok |-> FALSE]
      ELSE IF ~y.ok \/ ~m.ok THEN [ok |-> FALSE]
      ELSE IF y.v \notin 1 .. 9999 \/ m.v \notin 1 .. 12 THEN [ok |-> FALSE]
      ELSE [ok |-> TRUE,
            start_date |-> <<y.v, m.v, 1, 0, 0, 0>>,
            end_date |-> <<y.v, m.v, IF m.v = 2 THEN 28 ELSE monthrange(y.v, m.v),
                           23, 59, 59>>]

\* get_month_range: [ok |-> FALSE] is the (None, None) of the except branch.
get_month_range(month_str) ==
  LET parts == split(month_str)
      y == pyInt(parts[1])
      m == pyInt(parts[2])
  IN  IF Len(parts) # 2 THEN [ok |-> FALSE]
      ELSE IF ~y.ok \/ ~m.ok THEN [ok |-> FALSE]
      ELSE IF y.v \notin 1 .. 9999 \/ m.v \notin 1 .. 12 THEN [ok |-> FALSE]
      ELSE [ok |-> TRUE,
            start_date |-> <<y.v, m.v, 1, 0, 0, 0>>,
            end_date |-> <<y.v, m.v, monthrange(y.v, m.v), 23, 59, 59>>]

\* parse_date: strptime(date_string, '%Y-%m-%d'); [ok |-> FALSE] is None.
parse_date(date_string) ==
  LET parts == split(date_string)
      y == DigitsValue(parts[1])
      m == DigitsValue(parts[2])
      d == DigitsValue(parts[3])
  IN  IF Len(parts) # 3 THEN [ok |-> FALSE]
      ELSE IF ~(AllDigits(parts[1]) /\ Len(parts[1]) = 4) THEN [ok |-> FALSE]
      ELSE IF ~(AllDigits(parts[2]) /\ Len(parts[2]) \in 1 .. 2) THEN [ok |-> FALSE]
      ELSE IF ~(AllDigits(parts[3]) /\ Len(parts[3]) \in 1 .. 2) THEN [ok |-> FALSE]
      ELSE IF y < 1 \/ m \notin 1 .. 12 THEN [ok |-> FALSE]
      ELSE IF d \notin 1 .. monthrange(y, m) THEN [ok |-> FALSE]
      ELSE [ok |-> TRUE, v |-> <<y, m, d, 0, 0, 0>>]

(* ----------------------------- requests -------------------------------- *)

Users == {"u1", "u2"}

\* An Authorization header is a sequence of pieces: <<>> is a missing (or
\* empty) header, <<tok>> a bare token, <<"Bearer ", tok>> a prefixed one.
NoHeader == <<>>
Bare(tok) == <<tok>>
Bearer(tok) == <<"Bearer ", tok>>

\* auth.verify_id_token: the identity provider.  The ID token issued to a
\* user decodes to that user's uid; every other token raises.
TokenOf(u) == "token-" \o u
verify_id_token(token) ==
  IF \E u \in Users : token = <<TokenOf(u)>>
  THEN [ok |-> TRUE, uid |-> CHOOSE u \in Users : token = <<TokenOf(u)>>]
  ELSE [ok |-> FALSE]

\* verify_firebase_token: strips a 'Bearer ' prefix, then verifies; an
\* exception of the verification is None ([ok |-> FALSE]).
verify_firebase_token(token) ==
  verify_id_token(IF token # <<>> /\ Head(token) = "Bearer " THEN Tail(token)
                  ELSE token)

Err(status, error) == [status |-> status, error |-> error]
Pass == [status |-> 0]

\* Mutant of require_auth: the uid of the token is not compared with the path.
require_auth_NoOwnerCheck(auth_header, user_id) ==
  IF auth_header = <<>> THEN Err(401, "Authorization header missing")
  ELSE IF ~verify_firebase_token(auth_header).ok
       THEN Err(401, "Invalid or expired token")
  ELSE [status |-> 0]

\* require_auth, up to the call of the wrapped handler: Pass lets the
\* handler run, anything else is the response returned in its place.
require_auth(auth_header, user_id) ==
  LET decoded_token == verify_firebase_token(auth_header)
  IN  IF auth_header = <<>> THEN Err(401, "Authorization header missing")
      ELSE IF ~decoded_token.ok THEN Err(401, "Invalid or expired token")
      ELSE IF user_id # decoded_token.uid
           THEN Err(403, "Unauthorized access to user data")
      ELSE Pass

\* A request body with the keys the handlers read; Absent is a missing key.
Body(amount, month, category, date, note) ==
  [amount |-> amount, month |-> month, category |-> category,
   date |-> date, note |-> note]

\* `not data`: no JSON body, or an empty object.
NoData(data) == \A k \in DOMAIN data : ~Present(data[k])

Idle == [pc |-> "idle"]

NoRequest == [op |-> "none"]

\* The response of a finished request, with the request it answers.
Reply(req, resp) == last' = [req |-> req, resp |-> resp]

Init ==
  /\ budgets = [u \in Users |-> {}]
  /\ expenses = [u \in Users |-> {}]
  /\ inflight = [s \in Slots |-> Idle]
  /\ clock = 0
  /\ nextId = 1
  /\ last = [req |-> NoRequest, resp |-> Pass]

(* --------------------------- budget routes ----------------------------- *)

\* sum(doc['amount'] for doc in docs), from Python's initial 0.
RECURSIVE SumAmounts(_)
SumAmounts(docs) ==
  IF docs = {} THEN F(0)
  ELSE LET d == CHOOSE x \in docs : TRUE
       IN  FAdd(d.amount, SumAmounts(docs \ {d}))

\* The documents a budgets query with an optional month filter returns.
BudgetsOfMonth(collection, month) == {b \in collection : b.month = month}

\* get_budgets: GET /api/users/<user_id>/budgets[?month=]
\* month is Absent when the query parameter is missing.
BudgetsResponse(collection, month) ==
  LET filtered == IF Present(month) /\ Truthy(month)
                  THEN BudgetsOfMonth(collection, month.s)
                  ELSE collection
  IN  [status |-> 200, budgets |-> filtered, count |-> Cardinality(filtered),
       total_budget |-> SumAmounts(filtered)]

GetBudgets(user_id, header, month) ==
  /\ LET req == [op |-> "get_budgets", user_id |-> user_id, header |-> header,
                 month_arg |-> month]
         auth == require_auth(header, user_id)
     IN  IF auth.status # 0 THEN Reply(req, auth)
         ELSE Reply(req, BudgetsResponse(budgets[user_id], month))
  /\ UNCHANGED <<budgets, expenses, inflight, clock, nextId>>

\* set_budget, lines 194-222: the 4xx/5xx response of a body that fails
\* validation, or the validated amount, month and category.
SetBudgetParse(data) ==
  LET amount == pyFloat(data.amount)
      month == strip(data.month.s)
      category == strip(data.category.s)
  IN  IF NoData(data) THEN Err(400, "No data provided")
      ELSE IF ~Present(data.amount) \/ ~Truthy(data.amount)
           THEN Err(400, "Missing required field: amount")
      ELSE IF ~Present(data.month) \/ ~Truthy(data.month)
           THEN Err(400, "Missing required field: month")
      ELSE IF ~Present(data.category) \/ ~Truthy(data.category)
           THEN Err(400, "Missing required field: category")
      ELSE IF ~amount.ok THEN Err(400, "Invalid amount format")
      ELSE IF FLe(amount.v, F(0)) THEN Err(400, "Amount must be positive")
      ELSE IF data.month.t # "str" THEN Err(500, "Failed to set budget")
      ELSE IF month = <<>> \/ Len(split(month)) # 2
           THEN Err(400, "Invalid month format. Use YYYY-MM")
      ELSE IF data.category.t # "str" THEN Err(500, "Failed to set budget")
      ELSE IF category = <<>> THEN Err(400, "Category is required")
      ELSE [status |-> 0, amount |-> amount.v, month |-> month,
            category |-> category]

\* Mutant of ExistingBudgets: the existence query finds nothing.
ExistingBudgets_None(collection, month, category) == {}

\* set_budget, lines 225-227: the budgets of this month and category.
ExistingBudgets(collection, month, category) ==
  {b \in collection : b.month = month /\ b.category = category}

\* set_budget up to its existence query: POST /api/users/<user_id>/budgets
SetBudgetQuery(s, user_id, header, data) ==
  /\ inflight[s] = Idle
  /\ LET req == [op |-> "set_budget", user_id |-> user_id, header |-> header,
                 data |-> data]
         auth == require_auth(header, user_id)
         p == SetBudgetParse(data)
     IN  IF auth.status # 0 THEN Reply(req, auth) /\ UNCHANGED inflight
         ELSE IF p.status # 0 THEN Reply(req, p) /\ UNCHANGED inflight
         ELSE IF ExistingBudgets(budgets[user_id], p.month, p.category) # {}
              THEN /\ Reply(req, Err(400,
                        "Budget already exists for this category and month"))
                   /\ UNCHANGED inflight
         ELSE /\ inflight' = [inflight EXCEPT ![s] =
                     [pc |-> "sb_add", req |-> req, amount |-> p.amount,
                      month |-> p.month, category |-> p.category]]
              /\ UNCHANGED last
  /\ UNCHANGED <<budgets, expenses, clock, nextId>>

\* Mutant of SetBudgetAdd: the month of the body is stored as it came.
SetBudgetAdd_RawMonth(s) ==
  /\ inflight[s].pc = "sb_add"
  /\ LET r == inflight[s]
         budget_data == [id |-> nextId, amount |-> r.amount,
                         month |-> r.req.data.month.s,
                         category |-> r.category, created_at |-> clock,
                         updated_at |-> clock]
     IN  /\ budgets' = [budgets EXCEPT ![r.req.user_id] = @ \cup {budget_data}]
         /\ last' = [req |-> r.req, resp |-> [status |-> 201, budget |-> budget_data]]
  /\ inflight' = [inflight EXCEPT ![s] = [pc |-> "idle"]]
  /\ clock' = clock + 1
  /\ nextId' = nextId + 1
  /\ UNCHANGED expenses

\* Mutant of SetBudgetAdd: the add is conditional on the key still being free.
SetBudgetAdd_Conditional(s) ==
  /\ inflight[s].pc = "sb_add"
  /\ LET r == inflight[s]
         budget_data == [id |-> nextId, amount |-> r.amount, month |-> r.month,
                         category |-> r.category, created_at |-> clock,
                         updated_at |-> clock]
     IN  IF {b \in budgets[r.req.user_id] :
               b.month = r.month /\ b.category = r.category} # {}
         THEN /\ last' = [req |-> r.req,
                          resp |-> [status |-> 400,
                                    error |-> "Budget already exists for this category and month"]]
              /\ UNCHANGED <<budgets, clock, nextId>>
         ELSE /\ budgets' = [budgets EXCEPT ![r.req.user_id] = @ \cup {budget_data}]
              /\ last' = [req |-> r.req, resp |-> [status |-> 201, budget |-> budget_data]]
              /\ clock' = clock + 1
              /\ nextId' = nextId + 1
  /\ inflight' = [inflight EXCEPT ![s] = [pc |-> "idle"]]
  /\ UNCHANGED expenses

\* set_budget from budgets_ref.add on: the document is stored under a new id.
SetBudgetAdd(s) ==
  /\ inflight[s].pc = "sb_add"
  /\ LET r == inflight[s]
         budget_data == [id |-> nextId, amount |-> r.amount, month |-> r.month,
                         category |-> r.category, created_at |-> clock,
                         updated_at |-> clock]
     IN  /\ budgets' = [budgets EXCEPT ![r.req.user_id] = @ \cup {budget_data}]
         /\ Reply(r.req, [status |-> 201, budget |-> budget_data])
  /\ inflight' = [inflight EXCEPT ![s] = Idle]
  /\ clock' = clock + 1
  /\ nextId' = nextId + 1
  /\ UNCHANGED expenses

\* update_budget, lines 283-304: the fields of update_data beside
\* updated_at, as a body of validated values (Absent: not in update_data),
\* or the 4xx/5xx response of the first field that fails.
UpdateBudgetParse(data) ==
  LET amount == pyFloat(data.amount)
      category == strip(data.category.s)
      month == strip(data.month.s)
  IN  IF Present(data.amount) /\ ~amount.ok
      THEN Err(400, "Invalid amount format")
      ELSE IF Present(data.amount) /\ FLe(amount.v, F(0))
           THEN Err(400, "Amount must be positive")
      ELSE IF Present(data.category) /\ data.category.t # "str"
           THEN Err(500, "Failed to update budget")
      ELSE IF Present(data.category) /\ category = <<>>
           THEN Err(400, "Category cannot be empty")
      ELSE IF Present(data.month) /\ data.month.t # "str"
           THEN Err(500, "Failed to update budget")
      ELSE IF Present(data.month) /\ (month = <<>> \/ Len(split(month)) # 2)
           THEN Err(400, "Invalid month format. Use YYYY-MM")
      ELSE [status |-> 0,
            amount |-> IF Present(data.amount) THEN [t |-> "set", v |-> amount.v]
                       ELSE Absent,
            category |-> IF Present(data.category) THEN [t |-> "set", v |-> category]
                         ELSE Absent,
            month |-> IF Present(data.month) THEN [t |-> "set", v |-> month]
                      ELSE Absent]

\* Mutant of MergeUpdate: the document is replaced by update_data, so the
\* fields that are not in it are lost.
MergeUpdate_Replace(doc, update_data) ==
  [doc EXCEPT
     !.updated_at = update_data.updated_at,
     !.amount = IF update_data.amount.t # "absent" THEN update_data.amount.v
                ELSE [nan |-> FALSE, v |-> 0],
     !.category = IF update_data.category.t # "absent" THEN update_data.category.v
                  ELSE <<>>,
     !.month = IF update_data.month.t # "absent" THEN update_data.month.v ELSE <<>>]

\* budget_ref.update(update_data) on a stored document: the fields of
\* update_data replace the document's, the others stay.
MergeUpdate(doc, update_data) ==
  [doc EXCEPT
     !.updated_at = update_data.updated_at,
     !.amount = IF Present(update_data.amount) THEN update_data.amount.v ELSE @,
     !.category = IF Present(update_data.category) THEN update_data.category.v ELSE @,
     !.month = IF Present(update_data.month) THEN update_data.month.v ELSE @]

Exists(collection, id) == \E d \in collection : d.id = id
DocOf(collection, id) == CHOOSE d \in collection : d.id = id

\* update_budget up to the end of validation:
\* PUT /api/users/<user_id>/budgets/<budget_id>
UpdateBudgetGet(s, user_id, header, budget_id, data) ==
  /\ inflight[s] = Idle
  /\ LET req == [op |-> "update_budget", user_id |-> user_id, header |-> header,
                 budget_id |-> budget_id, data |-> data]
         auth == require_auth(header, user_id)
         p == UpdateBudgetParse(data)
     IN  IF auth.status # 0
         THEN Reply(req, auth) /\ UNCHANGED <<inflight, clock>>
         ELSE IF NoData(data)
              THEN /\ Reply(req, Err(400, "No data provided"))
                   /\ UNCHANGED <<inflight, clock>>
         ELSE IF ~Exists(budgets[user_id], budget_id)
              THEN /\ Reply(req, Err(404, "Budget not found"))
                   /\ UNCHANGED <<inflight, clock>>
         ELSE IF p.status # 0
              THEN Reply(req, p) /\ clock' = clock + 1 /\ UNCHANGED inflight
         ELSE /\ inflight' = [inflight EXCEPT ![s] =
                     [pc |-> "ub_update", req |-> req,
                      update_data |-> [updated_at |-> clock, amount |-> p.amount,
                                       category |-> p.category, month |-> p.month]]]
              /\ clock' = clock + 1
              /\ UNCHANGED last
  /\ UNCHANGED <<budgets, expenses, nextId>>

\* update_budget, line 307: budget_ref.update raises NotFound when the
\* document is gone, and the handler's except answers 500.
UpdateBudgetUpdate(s) ==
  /\ inflight[s].pc = "ub_update"
  /\ LET r == inflight[s]
         u == r.req.user_id
         id == r.req.budget_id
     IN  IF Exists(budgets[u], id)
         THEN /\ budgets' = [budgets EXCEPT ![u] =
                    (@ \ {DocOf(@, id)}) \cup {MergeUpdate(DocOf(@, id), r.update_data)}]
              /\ inflight' = [inflight EXCEPT ![s] = [pc |-> "ub_reget", req |-> r.req]]
              /\ UNCHANGED last
         ELSE /\ Reply(r.req, Err(500, "Failed to update budget"))
              /\ inflight' = [inflight EXCEPT ![s] = Idle]
              /\ UNCHANGED budgets
  /\ UNCHANGED <<expenses, clock, nextId>>

\* update_budget, lines 310-325: the document is read again and returned;
\* to_dict() of a document that is gone is None, and the except answers 500.
UpdateBudgetReget(s) ==
  /\ inflight[s].pc = "ub_reget"
  /\ LET r == inflight[s]
         u == r.req.user_id
         id == r.req.budget_id
     IN  IF Exists(budgets[u], id)
         THEN Reply(r.req, [status |-> 200, budget |-> DocOf(budgets[u], id)])
         ELSE Reply(r.req, Err(500, "Failed to update budget"))
  /\ inflight' = [inflight EXCEPT ![s] = Idle]
  /\ UNCHANGED <<budgets, expenses, clock, nextId>>

\* delete_budget up to its existence check:
\* DELETE /api/users/<user_id>/budgets/<budget_id>
DeleteBudgetGet(s, user_id, header, budget_id) ==
  /\ inflight[s] = Idle
  /\ LET req == [op |-> "delete_budget", user_id |-> user_id, header |-> header,
                 budget_id |-> budget_id]
         auth == require_auth(header, user_id)
     IN  IF auth.status # 0 THEN Reply(req, auth) /\ UNCHANGED inflight
         ELSE IF ~Exists(budgets[user_id], budget_id)
              THEN Reply(req, Err(404, "Budget not found")) /\ UNCHANGED inflight
         ELSE /\ inflight' = [inflight EXCEPT ![s] = [pc |-> "db_delete", req |-> req]]
              /\ UNCHANGED last
  /\ UNCHANGED <<budgets, expenses, clock, nextId>>

\* delete_budget, lines 346-350: deleting a document that is gone succeeds.
DeleteBudgetDelete(s) ==
  /\ inflight[s].pc = "db_delete"
  /\ LET r == inflight[s]
     IN  /\ budgets' = [budgets EXCEPT ![r.req.user_id] =
                          {d \in @ : d.id # r.req.budget_id}]
         /\ Reply(r.req, [status |-> 200, message |-> "Budget deleted successfully"])
  /\ inflight' = [inflight EXCEPT ![s] = Idle]
  /\ UNCHANGED <<expenses, clock, nextId>>

(* --------------------------- expense routes ---------------------------- *)

\* The documents of a collection with start_date <= date <= end_date.
InRange(collection, range) ==
  {e \in collection : LexLeq(range.start_date, e.date) /\ LexLeq(e.date, range.end_date)}

\* get_expenses: GET /api/users/<user_id>/expenses[?month=]
\* current_month is get_current_month() at the time of the request.
GetExpenses(user_id, header, month, current_month) ==
  /\ LET req == [op |-> "get_expenses", user_id |-> user_id, header |-> header,
                 month_arg |-> month]
         auth == require_auth(header, user_id)
         m == IF Present(month) THEN month.s ELSE current_month
         range == get_month_range(m)
         listed == InRange(expenses[user_id], range)
     IN  IF auth.status # 0 THEN Reply(req, auth)
         ELSE IF ~range.ok
              THEN Reply(req, Err(400, "Invalid month format. Use YYYY-MM"))
         ELSE Reply(req, [status |-> 200, expenses |-> listed, month |-> m,
                          total_count |-> Cardinality(listed)])
  /\ UNCHANGED <<budgets, expenses, inflight, clock, nextId>>

\* add_expense, lines 403-432: the 4xx/5xx response of a body that fails,
\* or the fields of the document to store.
AddExpenseParse(data) ==
  LET amount == pyFloat(data.amount)
      expense_date == parse_date(data.date.s)
  IN  IF ~Present(data.amount) THEN Err(400, "Missing required field: amount")
      ELSE IF ~Present(data.category)
           THEN Err(400, "Missing required field: category")
      ELSE IF ~Present(data.date) THEN Err(400, "Missing required field: date")
      ELSE IF ~amount.ok THEN Err(400, "Invalid amount format")
      ELSE IF FLe(amount.v, F(0)) THEN Err(400, "Amount must be positive")
      ELSE IF data.date.t # "str" THEN Err(500, "Failed to add expense")
      ELSE IF ~expense_date.ok
           THEN Err(400, "Invalid date format. Use YYYY-MM-DD")
      ELSE IF data.category.t # "str" THEN Err(500, "Failed to add expense")
      ELSE IF Present(data.note) /\ data.note.t # "str"
           THEN Err(500, "Failed to add expense")
      ELSE [status |-> 0, amount |-> amount.v,
            category |-> strip(data.category.s), date |-> expense_date.v,
            note |-> IF Present(data.note) THEN strip(data.note.s) ELSE <<>>]

\* add_expense: POST /api/users/<user_id>/expenses
AddExpense(user_id, header, data) ==
  /\ LET req == [op |-> "add_expense", user_id |-> user_id, header |-> header,
                 data |-> data]
         auth == require_auth(header, user_id)
         p == AddExpenseParse(data)
         expense_data == [id |-> nextId, amount |-> p.amount, category |-> p.category,
                          date |-> p.date, note |-> p.note, created_at |-> clock,
                          updated_at |-> clock]
     IN  IF auth.status # 0
         THEN Reply(req, auth) /\ UNCHANGED <<expenses, clock, nextId>>
         ELSE IF p.status # 0
              THEN Reply(req, p) /\ UNCHANGED <<expenses, clock, nextId>>
         ELSE /\ expenses' = [expenses EXCEPT ![user_id] = @ \cup {expense_data}]
              /\ Reply(req, [status |-> 201, expense |-> expense_data])
              /\ clock' = clock + 1
              /\ nextId' = nextId + 1
  /\ UNCHANGED <<budgets, inflight>>

(* -------------------------- analytics routes --------------------------- *)

\* round(n / d, 0) for n >= 0 and d > 0, ties to the even neighbour.
RoundRatio(n, d) ==
  LET q == n \div d
      r == n % d
  IN  IF 2 * r < d THEN q
      ELSE IF 2 * r > d THEN q + 1
      ELSE IF q % 2 = 0 THEN q ELSE q + 1

\* round(part / whole * 100, 2), in hundredths of a percent.
Percent(part, whole) ==
  IF part.nan \/ whole.nan THEN NaN ELSE F(RoundRatio(part.v * 10000, whole.v))

\* Mutant of computeSummary: a remainder of 0 counts as over budget.
computeSummary_Strict(month, expense_docs, budget_docs) ==
  LET total_expenses == SumAmounts(expense_docs)
      total_budget == SumAmounts(budget_docs)
      remaining_budget == FSub(total_budget, total_expenses)
  IN  [status |-> 200, month |-> month, total_expenses |-> total_expenses,
       total_budget |-> total_budget, remaining_budget |-> remaining_budget,
       budget_usage_percent |-> IF FGt(total_budget, F(0))
                                THEN Percent(total_expenses, total_budget)
                                ELSE F(0),
       budget_status |-> IF FEq(total_budget, F(0)) THEN "no_budget"
                         ELSE IF FGt(remaining_budget, F(0)) THEN "under_budget"
                         ELSE "over_budget",
       expense_count |-> Cardinality(expense_docs),
       budget_count |-> Cardinality(budget_docs)]

\* get_summary, lines 470-502: the summary of the month's documents.
computeSummary(month, expense_docs, budget_docs) ==
  LET total_expenses == SumAmounts(expense_docs)
      total_budget == SumAmounts(budget_docs)
      remaining_budget == FSub(total_budget, total_expenses)
      budget_usage_percent == IF FGt(total_budget, F(0))
                              THEN Percent(total_expenses, total_budget)
                              ELSE F(0)
      budget_status == IF FEq(total_budget, F(0)) THEN "no_budget"
                       ELSE IF FGe(remaining_budget, F(0)) THEN "under_budget"
                       ELSE "over_budget"
  IN  [status |-> 200, month |-> month, total_expenses |-> total_expenses,
       total_budget |-> total_budget, remaining_budget |-> remaining_budget,
       budget_usage_percent |-> budget_usage_percent,
       budget_status |-> budget_status,
       expense_count |-> Cardinality(expense_docs),
       budget_count |-> Cardinality(budget_docs)]

\* get_summary up to its expenses query: GET /api/summary/<user_id>/<month>
GetSummaryExpenses(s, user_id, header, month) ==
  /\ inflight[s] = Idle
  /\ LET req == [op |-> "get_summary", user_id |-> user_id, header |-> header,
                 month |-> month]
         auth == require_auth(header, user_id)
         range == get_month_range(month)
     IN  IF auth.status # 0 THEN Reply(req, auth) /\ UNCHANGED inflight
         ELSE IF ~range.ok
              THEN /\ Reply(req, Err(400, "Invalid month format. Use YYYY-MM"))
                   /\ UNCHANGED inflight
         ELSE /\ inflight' = [inflight EXCEPT ![s] =
                     [pc |-> "sum_budgets", req |-> req,
                      expenses |-> InRange(expenses[user_id], range)]]
              /\ UNCHANGED last
  /\ UNCHANGED <<budgets, expenses, clock, nextId>>

\* get_summary from its budgets query on.
GetSummaryBudgets(s) ==
  /\ inflight[s].pc = "sum_budgets"
  /\ LET r == inflight[s]
     IN  Reply(r.req, computeSummary(r.req.month, r.expenses,
                        BudgetsOfMonth(budgets[r.req.user_id], r.req.month)))
  /\ inflight' = [inflight EXCEPT ![s] = Idle]
  /\ UNCHANGED <<budgets, expenses, clock, nextId>>

RECURSIVE Perms(_)
Perms(S) ==
  IF S = {} THEN {<<>>}
  ELSE UNION {{<<x>> \o p : p \in Perms(S \ {x})} : x \in S}

\* The orders in which a date-range query may stream its documents:
\* ascending by date, documents of one date in the order of their ids,
\* which the store draws at random.
StreamOrders(docs) ==
  {o \in Perms(docs) :
     \A i \in 1 .. Len(o) - 1 : LexLeq(o[i].date, o[i + 1].date)}

\* The budget_lookup dicts the loop of lines 528-532 may build: where several
\* budgets of the month share a category, the one streamed last stays, and
\* the stream is ordered by the random ids.
BudgetLookups(budget_docs) ==
  LET cats == {b.category : b \in budget_docs}
  IN  {f \in [cats -> {b.amount : b \in budget_docs}] :
         \A c \in cats : \E b \in budget_docs : b.category = c /\ b.amount = f[c]}

\* budget_lookup.get(category, 0)
LookupGet(budget_lookup, category) ==
  IF category \in DOMAIN budget_lookup THEN budget_lookup[category] ELSE F(0)

\* The keys of category_expenses in insertion order.
RECURSIVE CategoryOrder(_)
CategoryOrder(order) ==
  IF order = <<>> THEN <<>>
  ELSE LET init == CategoryOrder(SubSeq(order, 1, Len(order) - 1))
           c == order[Len(order)].category
       IN  IF \E i \in 1 .. Len(init) : init[i] = c THEN init ELSE Append(init, c)

\* get_report, lines 565-572: whether a category's entry is marked over budget.
OverBudget(total_amount, budget) == FGt(budget, F(0)) /\ FGt(total_amount, budget)

\* get_report, lines 535-581: category_expenses after both loops.
CategoryExpenses(expense_docs, budget_lookup) ==
  LET total_expenses == SumAmounts(expense_docs)
  IN  [c \in {e.category : e \in expense_docs} |->
         LET mine == {e \in expense_docs : e.category = c}
             total_amount == SumAmounts(mine)
             budget == LookupGet(budget_lookup, c)
         IN  [total_amount |-> total_amount,
              count |-> Cardinality(mine),
              budget |-> budget,
              over_budget |-> OverBudget(total_amount, budget),
              percentage |-> IF FGt(total_expenses, F(0))
                             THEN Percent(total_amount, total_expenses)
                             ELSE F(0)]]

\* get_report, lines 557-577: the running maximum over the categories in
\* insertion order; [category |-> Null] is top_category = None.
RECURSIVE TopCategory(_, _)
TopCategory(cat_order, category_expenses) ==
  IF cat_order = <<>> THEN [category |-> Null, amount |-> F(0)]
  ELSE LET before == TopCategory(SubSeq(cat_order, 1, Len(cat_order) - 1),
                                 category_expenses)
           c == cat_order[Len(cat_order)]
       IN  IF FGt(category_expenses[c].total_amount, before.amount)
           THEN [category |-> Str(c), amount |-> category_expenses[c].total_amount]
           ELSE before

\* get_report, lines 527-614, for one stream order and one budget_lookup.
computeReport(month, order, budget_lookup) ==
  LET expense_docs == {order[i] : i \in 1 .. Len(order)}
      category_expenses == CategoryExpenses(expense_docs, budget_lookup)
      top == TopCategory(CategoryOrder(order), category_expenses)
  IN  [status |-> 200, month |-> month,
       expenses_by_category |-> category_expenses,
       top_spending_category |-> IF Truthy(top.category) THEN top ELSE Null,
       over_budget_categories_count |->
         Cardinality({c \in DOMAIN category_expenses :
                        category_expenses[c].over_budget}),
       total_expenses |-> SumAmounts(expense_docs),
       total_categories |-> Cardinality(DOMAIN category_expenses)]

\* get_report up to its expenses query: GET /api/report/<user_id>/<month>
GetReportExpenses(s, user_id, header, month) ==
  /\ inflight[s] = Idle
  /\ LET req == [op |-> "get_report", user_id |-> user_id, header |-> header,
                 month |-> month]
         auth == require_auth(header, user_id)
         range == get_month_range(month)
     IN  IF auth.status # 0 THEN Reply(req, auth) /\ UNCHANGED inflight
         ELSE IF ~range.ok
              THEN /\ Reply(req, Err(400, "Invalid month format. Use YYYY-MM"))
                   /\ UNCHANGED inflight
         ELSE \E order \in StreamOrders(InRange(expenses[user_id], range)) :
                /\ inflight' = [inflight EXCEPT ![s] =
                       [pc |-> "rep_budgets", req |-> req, order |-> order]]
                /\ UNCHANGED last
  /\ UNCHANGED <<budgets, expenses, clock, nextId>>

\* get_report from its budgets query on.
GetReportBudgets(s) ==
  /\ inflight[s].pc = "rep_budgets"
  /\ LET r == inflight[s]
     IN  \E budget_lookup \in
              BudgetLookups(BudgetsOfMonth(budgets[r.req.user_id], r.req.month)) :
           Reply(r.req, computeReport(r.req.month, r.order, budget_lookup))
  /\ inflight' = [inflight EXCEPT ![s] = Idle]
  /\ UNCHANGED <<budgets, expenses, clock, nextId>>

(* ------------------------- inputs and scheduling ----------------------- *)

Food == <<"F", "o", "o", "d">>
Rent == <<"R", "e", "n", "t">>
Padded(str) == <<" ">> \o str \o <<" ">>
Blank == <<" ", " ">>
Jan24 == <<"2", "0", "2", "4", "-", "0", "1">>
Feb24 == <<"2", "0", "2", "4", "-", "0", "2">>
NoDash == <<"2", "0", "2", "4", "0", "1">>
Jan15 == Jan24 \o <<"-", "1", "5">>
Feb29 == Feb24 \o <<"-", "2", "9">>
Feb30 == Feb24 \o <<"-", "3", "0">>

BudgetBody(amount, month, category) == Body(amount, month, category, Absent, Absent)
ExpenseBody(amount, category, date) == Body(amount, Absent, category, date, Absent)

\* Readings of datetime.now() promised to requests in flight.
PendingNow == Cardinality({s \in Slots : inflight[s].pc = "sb_add"})

\* Whether a request may arrive: always when D.concurrent, and otherwise
\* only when no request is in flight (requests handled one at a time).
Admits(D) == D.concurrent \/ \A s \in Slots : inflight[s] = Idle

\* Whether the run has a clock reading left for a request that arrives.
HasTime(D) == clock + PendingNow < D.max_clock

\* The worker that takes an arriving request: workers are interchangeable,
\* so it is the first idle one.
Takes(s) == inflight[s] = Idle /\ \A t \in 1 .. s - 1 : inflight[t] # Idle

\* One step of the server over the inputs D: a request arrives and runs up
\* to its first store call, or a request in flight runs to its next one.
\* D.callers are the (path user, Authorization header) pairs that arrive.
Step(D) ==
  \/ \E s \in Slots, c \in D.callers :
       \/ \E data \in D.budget_bodies :
            /\ Admits(D) /\ HasTime(D) /\ Takes(s)
            /\ SetBudgetQuery(s, c[1], c[2], data)
       \/ \E id \in D.ids, data \in D.update_bodies :
            /\ Admits(D) /\ HasTime(D) /\ Takes(s)
            /\ UpdateBudgetGet(s, c[1], c[2], id, data)
       \/ \E id \in D.ids :
            Admits(D) /\ Takes(s) /\ DeleteBudgetGet(s, c[1], c[2], id)
       \/ \E month \in D.months :
            Admits(D) /\ Takes(s) /\ GetSummaryExpenses(s, c[1], c[2], month)
       \/ \E month \in D.months :
            Admits(D) /\ Takes(s) /\ GetReportExpenses(s, c[1], c[2], month)
  \/ \E c \in D.callers :
       \/ \E month \in D.list_months :
            Admits(D) /\ GetBudgets(c[1], c[2], month)
       \/ \E month \in D.list_months, current_month \in D.months :
            Admits(D) /\ GetExpenses(c[1], c[2], month, current_month)
       \/ \E data \in D.expense_bodies :
            Admits(D) /\ HasTime(D) /\ AddExpense(c[1], c[2], data)
  \/ \E s \in Slots :
       \/ SetBudgetAdd(s)
       \/ UpdateBudgetUpdate(s)
       \/ UpdateBudgetReget(s)
       \/ DeleteBudgetDelete(s)
       \/ GetSummaryBudgets(s)
       \/ GetReportBudgets(s)

Owner(u) == <<u, Bearer(TokenOf(u))>>

NoBody == Body(Absent, Absent, Absent, Absent, Absent)

\* Concurrent requests of one user on one budget key.
RaceInputs ==
  [callers |-> {Owner("u1")},
   budget_bodies |-> {BudgetBody(Num(1), Str(Jan24), Str(Food)),
                      BudgetBody(Num(2), Str(Jan24), Str(Padded(Food)))},
   update_bodies |-> {BudgetBody(Num(2), Absent, Absent)},
   ids |-> {1},
   list_months |-> {Str(Jan24)},
   months |-> {Jan24},
   expense_bodies |-> {ExpenseBody(Num(1), Str(Food), Str(Jan15))},
   max_clock |-> MaxClock,
   concurrent |-> TRUE]

Next == Step(RaceInputs)

Spec == Init /\ [][Next]_vars

\* The budget routes, one request at a time.
BudgetInputs ==
  [callers |-> {Owner("u1")},
   budget_bodies |-> {BudgetBody(Num(1), Str(Jan24), Str(Food)),
                      BudgetBody(Num(1), Str(Jan24), Str(Rent)),
                      BudgetBody(Num(2), Str(Padded(Jan24)), Str(Padded(Food))),
                      BudgetBody(Num(0 - 1), Str(Jan24), Str(Food)),
                      BudgetBody(Num(1), Str(NoDash), Str(Food))},
   update_bodies |-> {NoBody,
                      Body(Absent, Absent, Absent, Absent, Str(Food)),
                      BudgetBody(Num(2), Absent, Absent),
                      BudgetBody(Absent, Str(Feb24), Absent),
                      BudgetBody(Absent, Absent, Str(Padded(Food))),
                      BudgetBody(Num(2), Str(Jan24), Str(Blank)),
                      BudgetBody(Num(0), Absent, Str(Rent))},
   ids |-> 1 .. 2,
   list_months |-> {Absent, Str(Jan24)},
   months |-> {Jan24},
   expense_bodies |-> {ExpenseBody(Num(1), Str(Food), Str(Jan15))},
   max_clock |-> MaxClock,
   concurrent |-> FALSE]

SeqNext == Step(BudgetInputs)

SeqSpec == Init /\ [][SeqNext]_vars

\* Every route, called by the owner, by the other user and without a
\* verifiable token.
AuthInputs ==
  [callers |-> Users \X {NoHeader, Bare("expired"), Bearer("forged"),
                         Bearer(TokenOf("u1")), Bare(TokenOf("u1")),
                         Bearer(TokenOf("u2"))},
   budget_bodies |-> {BudgetBody(Num(1), Str(Jan24), Str(Food))},
   update_bodies |-> {BudgetBody(Num(2), Absent, Absent)},
   ids |-> {1},
   list_months |-> {Str(Jan24)},
   months |-> {Jan24},
   expense_bodies |-> {ExpenseBody(Num(1), Str(Food), Str(Jan15))},
   max_clock |-> MaxClock,
   concurrent |-> FALSE]

AuthNext == Step(AuthInputs)

AuthSpec == Init /\ [][AuthNext]_vars

\* The write routes over amounts and categories of every kind.
InputInputs ==
  [callers |-> {Owner("u1")},
   budget_bodies |-> {BudgetBody(a, Str(Jan24), Str(Food)) :
                        a \in {Num(1), Num(0), Num(0 - 1), Null,
                               Str(<<"2">>), Str(<<" ", "2">>), Str(<<"-", "2">>),
                               Str(<<"a", "b", "c">>), Str(<<"n", "a", "n">>)}}
                     \cup {BudgetBody(Num(1), Str(Jan24), c) :
                             c \in {Str(Blank), Str(<<>>), Num(5), Absent, Str(Rent)}},
   update_bodies |-> {BudgetBody(Num(0), Absent, Absent),
                      BudgetBody(Str(<<"n", "a", "n">>), Absent, Absent),
                      BudgetBody(Null, Absent, Str(Rent)),
                      BudgetBody(Absent, Absent, Str(Blank)),
                      BudgetBody(Absent, Absent, Str(Padded(Rent)))},
   ids |-> {1},
   list_months |-> {Str(Jan24)},
   months |-> {Jan24},
   expense_bodies |-> {ExpenseBody(a, Str(Food), Str(Jan15)) :
                         a \in {Num(1), Num(0), Num(0 - 1), Null,
                                Str(<<"a", "b", "c">>), Str(<<"n", "a", "n">>)}}
                      \cup {ExpenseBody(Num(1), c, Str(Jan15)) :
                              c \in {Str(Blank), Str(<<>>), Num(5), Absent}}
                      \cup {ExpenseBody(Num(1), Str(Food), Str(Feb30))},
   max_clock |-> MaxClock,
   concurrent |-> FALSE]

InputNext == Step(InputInputs)

InputSpec == Init /\ [][InputNext]_vars

\* The analytics routes over budgets and expenses of two months.
AnalyticsInputs ==
  [callers |-> {Owner("u1")},
   budget_bodies |-> {BudgetBody(Num(2), Str(Jan24), Str(Food)),
                      BudgetBody(Num(3), Str(Jan24), Str(Rent))},
   update_bodies |-> {BudgetBody(Absent, Absent, Str(Food))},
   ids |-> 1 .. 2,
   list_months |-> {Str(Jan24)},
   months |-> {Jan24, Feb24, NoDash},
   expense_bodies |-> {ExpenseBody(Num(2), Str(Food), Str(Jan15)),
                       ExpenseBody(Num(3), Str(Food), Str(Jan15)),
                       ExpenseBody(Num(1), Str(Rent), Str(Feb29))},
   max_clock |-> MaxClockAnalytics,
   concurrent |-> FALSE]

AnalyticsNext == Step(AnalyticsInputs)

AnalyticsSpec == Init /\ [][AnalyticsNext]_vars

\* The report over expenses of several categories on one day, among them
\* categories of equal totals and a category that is blank.
ReportInputs ==
  [callers |-> {Owner("u1")},
   budget_bodies |-> {BudgetBody(Num(2), Str(Jan24), Str(Food))},
   update_bodies |-> {BudgetBody(Num(3), Absent, Absent)},
   ids |-> {1},
   list_months |-> {Str(Jan24)},
   months |-> {Jan24},
   expense_bodies |-> {ExpenseBody(Num(2), Str(Food), Str(Jan15)),
                       ExpenseBody(Num(2), Str(Rent), Str(Jan15)),
                       ExpenseBody(Num(1), Str(Rent), Str(Jan15)),
                       ExpenseBody(Num(3), Str(Blank), Str(Jan15))},
   max_clock |-> MaxClockAnalytics,
   concurrent |-> FALSE]

ReportNext == Step(ReportInputs)

ReportSpec == Init /\ [][ReportNext]_vars

Mar24 == <<"2", "0", "2", "4", "-", "0", "3">>
Feb23 == <<"2", "0", "2", "3", "-", "0", "2">>
Month13 == <<"2", "0", "2", "4", "-", "1", "3">>
Jan31 == Jan24 \o <<"-", "3", "1">>
Mar01 == Mar24 \o <<"-", "0", "1">>
Feb28of23 == Feb23 \o <<"-", "2", "8">>
Feb29of23 == Feb23 \o <<"-", "2", "9">>

\* Expenses dated on the first and last days of adjoining months, of a leap
\* and of a common year, and listings of those months.
DateInputs ==
  [callers |-> {Owner("u1")},
   budget_bodies |-> {BudgetBody(Num(1), Str(Feb24), Str(Food))},
   update_bodies |-> {BudgetBody(Num(2), Absent, Absent)},
   ids |-> {1},
   list_months |-> {Absent, Str(Jan24), Str(Mar24), Str(Feb23), Str(Month13)},
   months |-> {Feb24},
   expense_bodies |-> {ExpenseBody(Num(1), Str(Food), Str(d)) :
                         d \in {Jan31, Feb29, Mar01, Feb28of23, Feb29of23}},
   max_clock |-> MaxClock,
   concurrent |-> FALSE]

DateNext == Step(DateInputs)

DateSpec == Init /\ [][DateNext]_vars

(* ------------------------------- claims -------------------------------- *)

\* The user a header's token was issued to, if any.
IssuedTo(header) ==
  {u \in Users : header \in {Bare(TokenOf(u)), Bearer(TokenOf(u))}}

\* A step that answers a request.
Answers == last' # last

\* C1: on every protected route, a request with a missing header or a token
\* that does not verify is answered 401, a request whose token verifies for
\* a user other than the path's is answered 403, and in both cases the
\* answer carries no data and the step reads nothing into a worker and
\* changes no user's budgets or expenses.
C1_AuthGate ==
  [][Answers =>
       LET q == last'.req
           a == last'.resp
           expected == IF IssuedTo(q.header) = {} THEN 401
                       ELSE IF q.user_id \notin IssuedTo(q.header) THEN 403
                       ELSE 0
       IN  expected # 0 =>
             /\ a.status = expected
             /\ DOMAIN a = {"status", "error"}
             /\ UNCHANGED <<budgets, expenses, inflight, clock, nextId>>]_vars

\* C1 witness: u2's token was used on u1's path, where budgets are stored,
\* and the answer was 403.
C1_Witness ==
  /\ last.req.op \in {"get_budgets", "update_budget", "delete_budget"}
  /\ last.req.user_id = "u1"
  /\ last.req.header = Bearer(TokenOf("u2"))
  /\ budgets["u1"] # {}
  /\ last.resp.status = 403

\* No worker holds a request.
AllIdle == \A s \in Slots : inflight[s] = Idle

\* A step in which worker s finishes the step `from` of a handler.
Leaves(s, from) == inflight[s].pc = from /\ inflight'[s].pc # from

\* C2: with requests executed one at a time, no two stored budgets of one
\* user have the same (month, category).
C2_BudgetsUnique ==
  \A u \in Users : \A b1, b2 \in budgets[u] :
    (b1.month = b2.month /\ b1.category = b2.category) => b1 = b2

\* The stored budgets of user u with the key (month, category).
OfKey(u, month, category) ==
  {b \in budgets[u] : b.month = month /\ b.category = category}

\* C3: a budget create that has passed its existence check stores its
\* document and answers 201 whatever has been stored since the check, so
\* two creates of one key that both passed the check leave two documents.
C3_CheckThenCreate ==
  [][\A s \in Slots : Leaves(s, "sb_add") =>
       LET r == inflight[s]
           u == r.req.user_id
       IN  /\ last'.req = r.req
           /\ last'.resp.status = 201
           /\ last'.resp.budget \in budgets'[u] \ budgets[u]
           /\ budgets'[u] = budgets[u] \cup {last'.resp.budget}
           /\ last'.resp.budget.month = r.month
           /\ last'.resp.budget.category = r.category]_vars

\* C3 witness: two budgets of u1 for January/Food are stored, the second
\* of them just answered with 201.
C3_Witness ==
  /\ Cardinality(OfKey("u1", Jan24, Food)) = 2
  /\ last.req.op = "set_budget"
  /\ last.resp.status = 201
  /\ last.resp.budget \in OfKey("u1", Jan24, Food)

\* Whether the create request q names, after trimming, the month and the
\* category of a stored budget of its user.
NamesStoredKey(q) ==
  /\ q.data.month.t = "str"
  /\ q.data.category.t = "str"
  /\ OfKey(q.user_id, strip(q.data.month.s), strip(q.data.category.s)) # {}

Conflict == Err(400, "Budget already exists for this category and month")

\* The requests a step takes up: answered at once, or left with a worker.
TakenUp ==
  {last'.req : x \in IF Answers /\ inflight' = inflight THEN {1} ELSE {}}
    \cup {inflight'[s].req : s \in {t \in Slots : inflight[t] = Idle /\ inflight'[t] # Idle}}

\* C4 as stated: with no other request in flight, a create by the owner
\* that names the key of a stored budget is answered Conflict and stores
\* nothing.
C4_Original ==
  [][\A q \in TakenUp :
       (AllIdle /\ q.op = "set_budget" /\ q.user_id \in IssuedTo(q.header)
          /\ NamesStoredKey(q))
       => (last'.req = q /\ last'.resp = Conflict /\ budgets' = budgets)]_vars

\* C4 amended: the same, for a create whose amount passes validation.
C4_Conflict ==
  [][\A q \in TakenUp :
       (AllIdle /\ q.op = "set_budget" /\ q.user_id \in IssuedTo(q.header)
          /\ NamesStoredKey(q)
          /\ Truthy(q.data.amount) /\ pyFloat(q.data.amount).ok
          /\ ~FLe(pyFloat(q.data.amount).v, F(0)))
       => (last'.req = q /\ last'.resp = Conflict /\ budgets' = budgets)]_vars

\* C4 witness: a create naming a stored key, padded with spaces, was
\* answered Conflict.
C4_Witness ==
  /\ last.req.op = "set_budget"
  /\ NamesStoredKey(last.req)
  /\ last.req.data.category.s # strip(last.req.data.category.s)
  /\ last.resp = Conflict

\* Whether request q passes the auth gate.
ByOwner(q) == q.user_id \in IssuedTo(q.header)

\* A JSON value that is a number, or a string holding a decimal numeral.
IsNumber(x) == x.t = "num" \/ (x.t = "str" /\ Numeral(strip(x.s)).ok)
NumberOf(x) == IF x.t = "num" THEN x.n ELSE Numeral(strip(x.s)).v

\* An amount that is non-numeric or <= 0.
BadAmount(x) == Present(x) /\ (~IsNumber(x) \/ NumberOf(x) <= 0)

AllDocs == UNION {budgets[u] \cup expenses[u] : u \in Users}

\* C5: a budget or expense create whose amount is non-numeric or <= 0 is
\* answered 400 and stores nothing, and every stored budget and expense
\* has an amount > 0.
C5_AmountsPositive ==
  [][/\ \A q \in TakenUp :
          (q.op \in {"set_budget", "add_expense"} /\ ByOwner(q)
             /\ BadAmount(q.data.amount))
          => /\ last'.req = q
             /\ last'.resp.status = 400
             /\ UNCHANGED <<budgets, expenses>>
     /\ \A d \in AllDocs' : ~d.amount.nan /\ d.amount.v > 0]_vars

\* A category that is empty after trimming.
EmptyCategory(x) == x.t = "str" /\ strip(x.s) = <<>>

\* C6: a budget create, an update of a stored budget that carries a
\* category, or an expense create, whose category is empty after trimming,
\* is answered 400 and writes nothing, and no stored budget or expense has
\* an empty category.
C6_CategoryNonEmpty ==
  [][/\ \A q \in TakenUp :
          (/\ ByOwner(q)
           /\ \/ q.op \in {"set_budget", "add_expense"}
              \/ q.op = "update_budget" /\ Exists(budgets[q.user_id], q.budget_id)
           /\ EmptyCategory(q.data.category))
          => /\ last'.req = q
             /\ last'.resp.status = 400
             /\ UNCHANGED <<budgets, expenses>>
     /\ \A d \in AllDocs' : d.category # <<>>]_vars

\* A month string that does not have exactly one dash, or is empty, after
\* trimming.
BadMonth(x) ==
  x.t = "str" /\ LET m == strip(x.s)
                 IN  m = <<>> \/ Cardinality({i \in 1 .. Len(m) : m[i] = "-"}) # 1

\* A PUT body with a present field that fails validation.
HasInvalidField(data) ==
  \/ BadAmount(data.amount)
  \/ Present(data.category) /\ EmptyCategory(data.category)
  \/ Present(data.month) /\ BadMonth(data.month)

\* C7: the write of a budget update sets the fields among amount, category
\* and month that are in the request body to the body's (parsed, trimmed)
\* values, leaves the other fields of that budget, its id and created_at,
\* every other budget and every expense unchanged, and moves updated_at
\* forward; the update then answers 200 with the stored record; and a PUT
\* with a present field that fails validation is answered at once and
\* writes nothing.
C7_PartialUpdate ==
  [][/\ \A s \in Slots :
          (Leaves(s, "ub_update") /\ inflight'[s].pc = "ub_reget") =>
            LET q == inflight[s].req
                u == q.user_id
                old == DocOf(budgets[u], q.budget_id)
                new == DocOf(budgets'[u], q.budget_id)
            IN  /\ Exists(budgets'[u], q.budget_id)
                /\ budgets'[u] \ {new} = budgets[u] \ {old}
                /\ \A v \in Users \ {u} : budgets'[v] = budgets[v]
                /\ expenses' = expenses
                /\ new.id = old.id
                /\ new.created_at = old.created_at
                /\ new.amount = IF Present(q.data.amount)
                                THEN F(NumberOf(q.data.amount)) ELSE old.amount
                /\ new.category = IF Present(q.data.category)
                                  THEN strip(q.data.category.s) ELSE old.category
                /\ new.month = IF Present(q.data.month)
                               THEN strip(q.data.month.s) ELSE old.month
                /\ new.updated_at > old.updated_at
     /\ \A s \in Slots :
          Leaves(s, "ub_reget") =>
            /\ last'.req = inflight[s].req
            /\ last'.resp.status = 200
            /\ last'.resp.budget =
                 DocOf(budgets[last'.req.user_id], last'.req.budget_id)
     /\ \A q \in TakenUp :
          (q.op = "update_budget" /\ HasInvalidField(q.data)) =>
            /\ last'.req = q
            /\ last'.resp.status # 200
            /\ UNCHANGED <<budgets, expenses>>]_vars

\* C7 witness: a PUT with only a category in its body was answered 200
\* while the user holds two budgets.
C7_Witness ==
  /\ last.req.op = "update_budget"
  /\ last.resp.status = 200
  /\ ~Present(last.req.data.amount)
  /\ ~Present(last.req.data.month)
  /\ Present(last.req.data.category)
  /\ last.resp.budget.category = strip(last.req.data.category.s)
  /\ Cardinality(budgets["u1"]) = 2

\* The entries of a listing with the given month, category and amount.
Matching(listing, month, category, amount) ==
  {b \in listing : b.month = month /\ b.category = category /\ b.amount = F(amount)}

\* C8 as stated: when a create answers 201, the listing of the user's
\* budgets for the month of the request has exactly one entry with the
\* amount, month and category of the request.
C8_Original ==
  [][\A s \in Slots :
       (Leaves(s, "sb_add") /\ last'.resp.status = 201) =>
         LET q == inflight[s].req
             listing == BudgetsResponse(budgets'[q.user_id], q.data.month).budgets
         IN  Cardinality(Matching(listing, q.data.month.s, q.data.category.s,
                                  NumberOf(q.data.amount))) = 1]_vars

\* C8 amended: with requests executed one at a time, when a create answers
\* 201, the listing of the user's budgets for the trimmed month of the
\* request holds budgets of that month only, and exactly one of them has
\* the trimmed category of the request; its amount is the request's.
C8_CreateThenList ==
  [][\A s \in Slots :
       (Leaves(s, "sb_add") /\ last'.resp.status = 201) =>
         LET q == inflight[s].req
             month == strip(q.data.month.s)
             category == strip(q.data.category.s)
             listing == BudgetsResponse(budgets'[q.user_id], Str(month)).budgets
         IN  /\ \A b \in listing : b.month = month
             /\ Cardinality({b \in listing : b.category = category}) = 1
             /\ Cardinality(Matching(listing, month, category,
                                     NumberOf(q.data.amount))) = 1]_vars

\* C8 witness: a create with padded month and category answered 201 while
\* the user holds another budget.
C8_Witness ==
  /\ last.req.op = "set_budget"
  /\ last.resp.status = 201
  /\ last.req.data.month.s # strip(last.req.data.month.s)
  /\ last.req.data.category.s # strip(last.req.data.category.s)
  /\ last.resp.budget \in budgets["u1"]
  /\ Cardinality(budgets["u1"]) = 2

\* The sum of the amounts of a set of documents, as an integer.
RECURSIVE Total(_)
Total(docs) ==
  IF docs = {} THEN 0
  ELSE LET d == CHOOSE x \in docs : TRUE IN d.amount.v + Total(docs \ {d})

\* The stored expenses of user u dated in the calendar month `month`, and
\* the stored budgets of that month.
ExpensesIn(u, month) ==
  {e \in expenses[u] : /\ e.date[1] = pyInt(split(month)[1]).v
                       /\ e.date[2] = pyInt(split(month)[2]).v}
BudgetsIn(u, month) == {b \in budgets[u] : b.month = month}

\* C9: with requests executed one at a time, a summary has total_expenses =
\* the sum of the month's expense amounts, total_budget = the sum of the
\* month's budget amounts, remaining_budget = their difference, the counts
\* of both, and status no_budget with usage 0 when total_budget = 0,
\* else under_budget when the remainder is >= 0, else over_budget; a
\* usage percent of a positive budget is the ratio rounded to 0.01.
C9_Summary ==
  [][\A s \in Slots :
       Leaves(s, "sum_budgets") =>
         LET q == inflight[s].req
             a == last'.resp
             te == Total(ExpensesIn(q.user_id, q.month))
             tb == Total(BudgetsIn(q.user_id, q.month))
         IN  /\ last'.req = q
             /\ a.status = 200
             /\ a.total_expenses = F(te)
             /\ a.total_budget = F(tb)
             /\ a.remaining_budget = F(tb - te)
             /\ a.expense_count = Cardinality(ExpensesIn(q.user_id, q.month))
             /\ a.budget_count = Cardinality(BudgetsIn(q.user_id, q.month))
             /\ a.budget_status = IF tb = 0 THEN "no_budget"
                                  ELSE IF tb - te >= 0 THEN "under_budget"
                                  ELSE "over_budget"
             /\ tb = 0 => a.budget_usage_percent = F(0)
             /\ tb > 0 =>
                  LET p == a.budget_usage_percent.v
                  IN  /\ 2 * (p * tb - te * 10000) <= tb
                      /\ 2 * (te * 10000 - p * tb) <= tb]_vars

\* C9 witness: a summary of January with a budget and a larger expense
\* total was answered over_budget.
C9_Witness ==
  /\ last.req.op = "get_summary"
  /\ last.req.month = Jan24
  /\ last.resp.status = 200
  /\ last.resp.budget_count >= 1
  /\ last.resp.expense_count >= 1
  /\ last.resp.budget_status = "over_budget"

\* C10: with requests executed one at a time, in a report a category's
\* over_budget flag is true iff the category has a budget > 0 for the month
\* that the category's expense total exceeds; over_budget_categories_count
\* is the number of true flags; and a category with a budget but no
\* expense in the month is not in the report.
C10_OverBudget ==
  [][\A s \in Slots :
       Leaves(s, "rep_budgets") =>
         LET q == inflight[s].req
             a == last'.resp
             E == ExpensesIn(q.user_id, q.month)
             B == BudgetsIn(q.user_id, q.month)
             by == a.expenses_by_category
         IN  /\ \A c \in DOMAIN by :
                  by[c].over_budget <=>
                    \E b \in B : /\ b.category = c
                                 /\ b.amount.v > 0
                                 /\ Total({e \in E : e.category = c}) > b.amount.v
             /\ a.over_budget_categories_count =
                  Cardinality({c \in DOMAIN by : by[c].over_budget})
             /\ \A b \in B :
                  (\A e \in E : e.category # b.category) =>
                    b.category \notin DOMAIN by]_vars

\* The expense total of category c among the documents streamed in `order`,
\* and the position of the first of them.
CategoryTotal(order, c) ==
  Total({order[i] : i \in {j \in 1 .. Len(order) : order[j].category = c}})
FirstAt(order, c) ==
  CHOOSE i \in 1 .. Len(order) :
    /\ order[i].category = c
    /\ \A j \in 1 .. i - 1 : order[j].category # c

\* Category c has the maximum total, and among the categories of that total
\* it is the one met first.
IsTop(order, c) ==
  /\ \E i \in 1 .. Len(order) : order[i].category = c
  /\ \A i \in 1 .. Len(order) :
       LET d == order[i].category
       IN  \/ CategoryTotal(order, c) > CategoryTotal(order, d)
           \/ /\ CategoryTotal(order, c) = CategoryTotal(order, d)
              /\ FirstAt(order, c) <= FirstAt(order, d)

\* C11: with requests executed one at a time, a report's
\* top_spending_category is null exactly when the month has no expenses,
\* and otherwise names the category of maximum expense total, among
\* several of that total the one whose first expense the query streamed
\* first, together with that total.
C11_TopCategory ==
  [][\A s \in Slots :
       Leaves(s, "rep_budgets") =>
         LET q == inflight[s].req
             order == inflight[s].order
             top == last'.resp.top_spending_category
         IN  /\ (top = Null) <=> (ExpensesIn(q.user_id, q.month) = {})
             /\ top # Null =>
                  /\ top.category.t = "str"
                  /\ IsTop(order, top.category.s)
                  /\ top.amount = F(CategoryTotal(order, top.category.s))]_vars

\* The number of days of month m of year y in the Gregorian calendar.
DaysIn(y, m) ==
  <<31, 28, 31, 30, 31, 30, 31, 31, 30, 31, 30, 31>>[m]
    + (IF m = 2 /\ (y % 400 = 0 \/ (y % 4 = 0 /\ y % 100 # 0)) THEN 1 ELSE 0)

\* The string YYYY-MM of month m of year y.
Numerals == <<"0", "1", "2", "3", "4", "5", "6", "7", "8", "9">>
MonthString(y, m) ==
  <<Numerals[((y \div 1000) % 10) + 1], Numerals[((y \div 100) % 10) + 1],
    Numerals[((y \div 10) % 10) + 1], Numerals[(y % 10) + 1], "-",
    Numerals[(m \div 10) + 1], Numerals[(m % 10) + 1]>>

\* The calendar months around the stored dates, and the Februaries of two
\* turns of a century.
CalendarMonths == ({2023, 2024} \X (1 .. 12)) \cup ({1900, 2000} \X {2})

\* The expense listing of user u for the month string M.
Listing(u, M) == InRange(expenses[u], get_month_range(M))

\* C12: the range of a month string YYYY-MM is [first day 00:00:00, last
\* day 23:59:59] with the month's calendar length; an expense listing
\* answered for month M returns exactly the stored expenses dated in
\* calendar month M; and every stored expense is listed under exactly one
\* month.
C12_MonthRange ==
  /\ \A ym \in CalendarMonths :
       get_month_range(MonthString(ym[1], ym[2])) =
         [ok |-> TRUE,
          start_date |-> <<ym[1], ym[2], 1, 0, 0, 0>>,
          end_date |-> <<ym[1], ym[2], DaysIn(ym[1], ym[2]), 23, 59, 59>>]
  /\ (last.req.op = "get_expenses" /\ last.resp.status = 200) =>
       /\ last.resp.expenses =
            {e \in expenses[last.req.user_id] :
               \E ym \in CalendarMonths :
                 /\ MonthString(ym[1], ym[2]) = last.resp.month
                 /\ e.date[1] = ym[1] /\ e.date[2] = ym[2]
                 /\ e.date[3] \in 1 .. DaysIn(ym[1], ym[2])}
       /\ last.resp.total_count = Cardinality(last.resp.expenses)
  /\ \A u \in Users : \A e \in expenses[u] :
       Cardinality({ym \in CalendarMonths :
                      e \in Listing(u, MonthString(ym[1], ym[2]))}) = 1

\* C12 witness: with expenses stored on 31 January, 29 February and 1 March
\* 2024, the listing of the current month 2024-02 was answered with the one
\* of 29 February.
C12_Witness ==
  /\ last.req.op = "get_expenses"
  /\ last.resp.status = 200
  /\ last.resp.month = Feb24
  /\ {e.date : e \in expenses["u1"]} =
       {<<2024, 1, 31, 0, 0, 0>>, <<2024, 2, 29, 0, 0, 0>>, <<2024, 3, 1, 0, 0, 0>>}
  /\ {e.date : e \in last.resp.expenses} = {<<2024, 2, 29, 0, 0, 0>>}

\* The ids of the budgets stored for user u.
BudgetIds(u) == {d.id : d \in budgets[u]}

\* C13: a PUT or DELETE of a budget that reaches its write when the id is
\* not in the store, a concurrent DELETE having removed it since the
\* existence check included, is answered 404; no step of a PUT or DELETE
\* adds a budget id to the store; and an authorized PUT is answered 200,
\* 400 or 404.
C13_MissingIsNotFound ==
  [][/\ \A s \in Slots :
          (Leaves(s, "ub_update") \/ Leaves(s, "db_delete")) =>
            LET q == inflight[s].req
            IN  /\ q.budget_id \notin BudgetIds(q.user_id) =>
                     /\ last'.req = q
                     /\ last'.resp.status = 404
                /\ \A u \in Users : BudgetIds(u)' \subseteq BudgetIds(u)
     /\ (Answers /\ last'.req.op = "update_budget"
                 /\ require_auth(last'.req.header, last'.req.user_id).status = 0) =>
          last'.resp.status \in {200, 400, 404}]_vars

====
